---- MODULE Spec2Model ----
(***************************************************************************)
(* Model of easm (src/main.rs): a mnemonic assembler made of               *)
(*   Op::from_str / Op::as_opcode  (the mnemonic table),                   *)
(*   Lexer::lex                    (text -> Vec<Op>),                      *)
(*   Parser::next / Parser::parse  (Vec<Op> -> Vec<u32>),                  *)
(*   main                          (lex, print lexer, parse, print joined).*)
(* A str / String is a sequence of one-character strings.  An Op is a      *)
(* record [tag, val]; val is the payload of VALUE and <<>> otherwise.      *)
(***************************************************************************)
EXTENDS Integers, Sequences, FiniteSets, TLC

VARIABLES
    source,        \* main: the text read from the file (line 204)
    pc,            \* position of main / lex / parse
    lines,         \* Lexer::lex: remaining items of source.lines()
    splited,       \* Lexer::lex: remaining items of line.split_whitespace()
    lexer_result,  \* Lexer.result
    lex_returns,   \* Lexer.result as each completed call of lex left it
    tokens,        \* Parser.tokens
    cursor,        \* Parser.cursor (0-based)
    result,        \* Parser::parse: the local `result`
    parsed,        \* main: the value bound by `let result = parser.parse().unwrap()`
    stdout,        \* what main has printed, one entry per println!
    err            \* which panic ended the run, "none" while running

vars == <<source, pc, lines, splited, lexer_result, lex_returns, tokens, cursor,
          result, parsed, stdout, err>>

-----------------------------------------------------------------------------
(* Bounds of the model *)

MaxWords == 3

\* calls of lex on one Lexer in the re-lexing runs
MaxLexRuns == 2

-----------------------------------------------------------------------------
(* Characters and texts *)

SP  == " "
TAB == "\t"
NL  == "\n"
CR  == "\r"

\* char::is_whitespace restricted to the characters the model writes
IsWhitespace(c) == c \in {SP, TAB, NL, CR}

DigitChars == <<"0", "1", "2", "3", "4", "5", "6", "7", "8", "9">>

IsDigit(c) == \E i \in 1..10 : DigitChars[i] = c

DigitVal(c) == (CHOOSE i \in 1..10 : DigitChars[i] = c) - 1

\* the source words the model writes into the file
W_mstore      == <<"m", "s", "t", "o", "r", "e">>
W_MLOAD       == <<"M", "L", "O", "A", "D">>
W_create      == <<"c", "r", "e", "a", "t", "e">>
W_extcodecopy == <<"e", "x", "t", "c", "o", "d", "e", "c", "o", "p", "y">>
W_push1       == <<"p", "u", "s", "h", "1">>
W_PUSH1       == <<"P", "U", "S", "H", "1">>
W_Push1       == <<"P", "u", "s", "h", "1">>
W_pop         == <<"p", "o", "p">>
W_DUP1        == <<"D", "U", "P", "1">>
W_swap1       == <<"s", "w", "a", "p", "1">>
W_0x01        == <<"0", "x", "0", "1">>
W_01          == <<"0", "1">>
W_2a          == <<"2", "a">>
W_0x2a        == <<"0", "x", "2", "a">>
W_99999999    == <<"9", "9", "9", "9", "9", "9", "9", "9">>

Vocabulary ==
    { W_mstore, W_MLOAD, W_create, W_extcodecopy, W_push1, W_PUSH1, W_Push1,
      W_pop, W_DUP1, W_swap1, W_0x01, W_01, W_2a, W_0x2a, W_99999999 }

\* whitespace layouts: text before the first word, between words, after the last
Layouts ==
    { [lead |-> <<>>,        sep |-> <<SP>>,          trail |-> <<>>],
      [lead |-> <<>>,        sep |-> <<NL>>,          trail |-> <<NL>>],
      [lead |-> <<SP, TAB>>, sep |-> <<TAB, NL, SP>>, trail |-> <<SP>>],
      [lead |-> <<NL>>,      sep |-> <<CR, NL, NL>>,  trail |-> <<CR, NL>>] }

RECURSIVE JoinWords(_, _)
JoinWords(ws, sep) ==
    IF ws = <<>> THEN <<>>
    ELSE IF Len(ws) = 1 THEN ws[1]
    ELSE ws[1] \o sep \o JoinWords(Tail(ws), sep)

WordSeqs == UNION { [1..n -> Vocabulary] : n \in 0..MaxWords }

SourceTexts ==
    { l.lead \o JoinWords(ws, l.sep) \o l.trail : ws \in WordSeqs, l \in Layouts }

-----------------------------------------------------------------------------
(* Op *)

Instr(t) == [tag |-> t, val |-> <<>>]
VALUE(s) == [tag |-> "VALUE", val |-> s]

\* from_str with an Err arm for unknown words instead of the VALUE fallback
from_str_strict(str) ==
    IF str \in {<<"M", "S", "T", "O", "R", "E">>, <<"m", "s", "t", "o", "r", "e">>}
        THEN [ok |-> TRUE, op |-> Instr("MSTORE")]
    ELSE IF str \in {<<"M", "L", "O", "A", "D">>, <<"m", "l", "o", "a", "d">>}
        THEN [ok |-> TRUE, op |-> Instr("MLOAD")]
    ELSE IF str \in {<<"C", "R", "E", "A", "T", "E">>, <<"c", "r", "e", "a", "t", "e">>}
        THEN [ok |-> TRUE, op |-> Instr("CREATE")]
    ELSE IF str \in {<<"E", "X", "T", "C", "O", "D", "E", "C", "O", "P", "Y">>,
                     <<"e", "x", "t", "c", "o", "d", "e", "c", "o", "p", "y">>}
        THEN [ok |-> TRUE, op |-> Instr("EXTCODECOPY")]
    ELSE IF str \in {<<"P", "U", "S", "H", "1">>, <<"p", "u", "s", "h", "1">>}
        THEN [ok |-> TRUE, op |-> Instr("PUSH1")]
    ELSE IF str \in {<<"P", "O", "P">>, <<"p", "o", "p">>}
        THEN [ok |-> TRUE, op |-> Instr("POP")]
    ELSE IF str \in {<<"D", "U", "P", "1">>, <<"d", "u", "p", "1">>}
        THEN [ok |-> TRUE, op |-> Instr("DUP1")]
    ELSE IF str \in {<<"S", "W", "A", "P", "1">>, <<"s", "w", "a", "p", "1">>}
        THEN [ok |-> TRUE, op |-> Instr("SWAP1")]
    ELSE [ok |-> FALSE, op |-> VALUE(str)]

\* Op::from_str
from_str(str) ==
    IF str \in {<<"M", "S", "T", "O", "R", "E">>, <<"m", "s", "t", "o", "r", "e">>}
        THEN [ok |-> TRUE, op |-> Instr("MSTORE")]
    ELSE IF str \in {<<"M", "L", "O", "A", "D">>, <<"m", "l", "o", "a", "d">>}
        THEN [ok |-> TRUE, op |-> Instr("MLOAD")]
    ELSE IF str \in {<<"C", "R", "E", "A", "T", "E">>, <<"c", "r", "e", "a", "t", "e">>}
        THEN [ok |-> TRUE, op |-> Instr("CREATE")]
    ELSE IF str \in {<<"E", "X", "T", "C", "O", "D", "E", "C", "O", "P", "Y">>,
                     <<"e", "x", "t", "c", "o", "d", "e", "c", "o", "p", "y">>}
        THEN [ok |-> TRUE, op |-> Instr("EXTCODECOPY")]
    ELSE IF str \in {<<"P", "U", "S", "H", "1">>, <<"p", "u", "s", "h", "1">>}
        THEN [ok |-> TRUE, op |-> Instr("PUSH1")]
    ELSE IF str \in {<<"P", "O", "P">>, <<"p", "o", "p">>}
        THEN [ok |-> TRUE, op |-> Instr("POP")]
    ELSE IF str \in {<<"D", "U", "P", "1">>, <<"d", "u", "p", "1">>}
        THEN [ok |-> TRUE, op |-> Instr("DUP1")]
    ELSE IF str \in {<<"S", "W", "A", "P", "1">>, <<"s", "w", "a", "p", "1">>}
        THEN [ok |-> TRUE, op |-> Instr("SWAP1")]
    ELSE [ok |-> TRUE, op |-> VALUE(str)]

\* Op::as_opcode
as_opcode(op) ==
    CASE op.tag = "MSTORE"      -> 52
      [] op.tag = "MLOAD"       -> 51
      [] op.tag = "CREATE"      -> 240
      [] op.tag = "EXTCODECOPY" -> 60
      [] op.tag = "PUSH1"       -> 60
      [] op.tag = "POP"         -> 50
      [] op.tag = "DUP1"        -> 80
      [] op.tag = "SWAP1"       -> 90
      [] OTHER                  -> 0

-----------------------------------------------------------------------------
(* Library conversions used by the program *)

\* u32::to_string: decimal text without leading zeros
RECURSIVE to_string(_)
to_string(n) ==
    IF n < 10 THEN <<DigitChars[n + 1]>>
    ELSE to_string(n \div 10) \o <<DigitChars[(n % 10) + 1]>>

RECURSIVE StripZeros(_)
StripZeros(s) ==
    IF Len(s) > 1 /\ s[1] = "0" THEN StripZeros(Tail(s)) ELSE s

RECURSIVE DigitsValue(_, _)
DigitsValue(s, acc) ==
    IF s = <<>> THEN acc ELSE DigitsValue(Tail(s), acc * 10 + DigitVal(s[1]))

U32MaxDigits == <<"4", "2", "9", "4", "9", "6", "7", "2", "9", "5">>

\* lexicographic s <= t for digit texts of equal length
RECURSIVE DigitsLeq(_, _)
DigitsLeq(s, t) ==
    IF s = <<>> THEN TRUE
    ELSE IF DigitVal(s[1]) < DigitVal(t[1]) THEN TRUE
    ELSE IF DigitVal(s[1]) > DigitVal(t[1]) THEN FALSE
    ELSE DigitsLeq(Tail(s), Tail(t))

\* parse with unwrap_or_default in place of the overflow error
parse_u32_default(s) ==
    LET body == IF s # <<>> /\ s[1] = "+" THEN Tail(s) ELSE s
        sig  == StripZeros(body)
    IN  IF body = <<>> \/ \E i \in 1..Len(body) : ~IsDigit(body[i])
            THEN [ok |-> FALSE, val |-> 0]
        ELSE IF Len(sig) > 10 \/ (Len(sig) = 10 /\ ~DigitsLeq(sig, U32MaxDigits))
            THEN [ok |-> TRUE, val |-> 0]
        ELSE [ok |-> TRUE, val |-> DigitsValue(sig, 0)]

\* <u32 as FromStr>::from_str: optional '+', then one or more decimal digits,
\* an error when the text is empty, has another character, or exceeds u32::MAX
parse_u32(s) ==
    LET body == IF s # <<>> /\ s[1] = "+" THEN Tail(s) ELSE s
        sig  == StripZeros(body)
    IN  IF body = <<>> \/ \E i \in 1..Len(body) : ~IsDigit(body[i])
            THEN [ok |-> FALSE, val |-> 0]
        ELSE IF Len(sig) > 10 \/ (Len(sig) = 10 /\ ~DigitsLeq(sig, U32MaxDigits))
            THEN [ok |-> FALSE, val |-> 0]
        ELSE [ok |-> TRUE, val |-> DigitsValue(sig, 0)]

\* opcode_parser formatting the value before the opcode
opcode_parser_swapped(opcode, value) == parse_u32(value \o opcode)

\* opcode_parser::<String, u32> before the unwrap
opcode_parser(opcode, value) == parse_u32(opcode \o value)

\* strip_prefix("0x"): removes the prefix once
trim_once_0x(s) ==
    IF Len(s) >= 2 /\ s[1] = "0" /\ s[2] = "x" THEN SubSeq(s, 3, Len(s)) ELSE s

\* str::trim_start_matches("0x"): removes the prefix repeatedly
RECURSIVE trim_start_matches_0x(_)
trim_start_matches_0x(s) ==
    IF Len(s) >= 2 /\ s[1] = "0" /\ s[2] = "x"
        THEN trim_start_matches_0x(SubSeq(s, 3, Len(s)))
        ELSE s

\* index of the first "\n" of s, 0 when there is none
FirstNL(s) ==
    IF \E i \in 1..Len(s) : s[i] = NL
        THEN CHOOSE i \in 1..Len(s) : s[i] = NL /\ \A j \in 1..(i - 1) : s[j] # NL
        ELSE 0

StripCR(l) == IF l # <<>> /\ l[Len(l)] = CR THEN SubSeq(l, 1, Len(l) - 1) ELSE l

\* lines() that yields the first line only
str_lines_first(s) ==
    IF s = <<>> THEN <<>>
    ELSE LET i == FirstNL(s)
         IN  IF i = 0 THEN <<s>> ELSE <<StripCR(SubSeq(s, 1, i - 1))>>

\* str::lines: split at "\n" (or "\r\n"), no item for the empty text after a
\* final line ending
RECURSIVE str_lines(_)
str_lines(s) ==
    IF s = <<>> THEN <<>>
    ELSE LET i == FirstNL(s)
         IN  IF i = 0 THEN <<s>>
             ELSE <<StripCR(SubSeq(s, 1, i - 1))>> \o str_lines(SubSeq(s, i + 1, Len(s)))

\* split(char::is_whitespace): an item between any two delimiters, empty or not
RECURSIVE split_each(_)
split_each(s) ==
    IF \E i \in 1..Len(s) : IsWhitespace(s[i])
        THEN LET n == CHOOSE i \in 1..Len(s) :
                          IsWhitespace(s[i]) /\ \A j \in 1..(i - 1) : ~IsWhitespace(s[j])
             IN  <<SubSeq(s, 1, n - 1)>> \o split_each(SubSeq(s, n + 1, Len(s)))
        ELSE <<s>>

\* str::split_whitespace: the maximal runs of non-whitespace characters
RECURSIVE split_whitespace(_)
split_whitespace(s) ==
    IF s = <<>> THEN <<>>
    ELSE IF IsWhitespace(s[1]) THEN split_whitespace(Tail(s))
    ELSE LET n == IF \E i \in 1..Len(s) : IsWhitespace(s[i])
                      THEN (CHOOSE i \in 1..Len(s) :
                               IsWhitespace(s[i]) /\ \A j \in 1..(i - 1) : ~IsWhitespace(s[j])) - 1
                      ELSE Len(s)
         IN  <<SubSeq(s, 1, n)>> \o split_whitespace(SubSeq(s, n + 1, Len(s)))

-----------------------------------------------------------------------------
(* main, Lexer, Parser *)

\* main up to `let mut lexer = Lexer::new()`
Init ==
    /\ source \in SourceTexts
    /\ pc = "main"
    /\ lines = <<>>
    /\ splited = <<>>
    /\ lexer_result = <<>>
    /\ lex_returns = <<>>
    /\ tokens = <<>>
    /\ cursor = 0
    /\ result = <<>>
    /\ parsed = <<>>
    /\ stdout = <<>>
    /\ err = "none"

\* main calls lexer.lex(source); lex: let mut lines = source.lines()
LexStart ==
    /\ pc = "main"
    /\ lines' = str_lines(source)
    /\ splited' = <<>>
    /\ pc' = "lex"
    /\ UNCHANGED <<lex_returns, source, lexer_result, tokens, cursor, result, parsed, stdout, err>>

\* lex: the inner loop is exhausted and lines.next() is Some(line)
LexLine ==
    /\ pc = "lex"
    /\ splited = <<>>
    /\ lines # <<>>
    /\ splited' = split_whitespace(Head(lines))
    /\ lines' = Tail(lines)
    /\ UNCHANGED <<lex_returns, source, pc, lexer_result, tokens, cursor, result, parsed, stdout, err>>

\* lex: splited.next() is Some(word)
LexWord ==
    /\ pc = "lex"
    /\ splited # <<>>
    /\ LET r == from_str(Head(splited))
       IN  IF r.ok
             THEN /\ lexer_result' = Append(lexer_result, r.op)
                  /\ splited' = Tail(splited)
                  /\ UNCHANGED <<pc, err>>
             ELSE /\ pc' = "panic"
                  /\ err' = "lex"
                  /\ UNCHANGED <<lexer_result, splited>>
    /\ UNCHANGED <<lex_returns, source, lines, tokens, cursor, result, parsed, stdout>>

\* lex returns Ok(()); main unwraps it, prints the lexer and builds the parser
LexReturn ==
    /\ pc = "lex"
    /\ splited = <<>>
    /\ lines = <<>>
    /\ stdout' = Append(stdout, [fmt |-> "debug", lexer |-> lexer_result, text |-> <<>>])
    /\ tokens' = lexer_result
    /\ cursor' = 0
    /\ result' = <<>>
    /\ pc' = "parse"
    /\ lex_returns' = Append(lex_returns, lexer_result)
    /\ UNCHANGED <<source, lines, splited, lexer_result, parsed, err>>

\* Parser::get_token / the lookup of Parser::next
HasToken(index) == index < Len(tokens)
get_token(index) == tokens[index + 1]

\* ParsePush1 that leaves the loop on a missing operand and returns what it has
ParsePush1_partial ==
    /\ pc = "parse"
    /\ HasToken(cursor)
    /\ get_token(cursor).tag = "PUSH1"
    /\ LET c1 == cursor + 1
       IN  IF ~HasToken(c1)
             THEN /\ pc' = "parsed" /\ parsed' = result
                  /\ cursor' = c1 /\ UNCHANGED <<result, err>>
           ELSE IF get_token(c1).tag # "VALUE"
             THEN /\ pc' = "panic" /\ err' = "bad_operand"
                  /\ cursor' = c1 /\ UNCHANGED <<result, parsed>>
           ELSE LET value == trim_start_matches_0x(get_token(c1).val)
                    code  == opcode_parser(to_string(as_opcode(Instr("PUSH1"))), value)
                IN  IF ~code.ok
                      THEN /\ pc' = "panic" /\ err' = "convert"
                           /\ cursor' = c1 /\ UNCHANGED <<result, parsed>>
                      ELSE /\ result' = Append(result, code.val)
                           /\ cursor' = c1 + 1
                           /\ UNCHANGED <<pc, err, parsed>>
    /\ UNCHANGED <<lex_returns, source, lines, splited, lexer_result, tokens, stdout>>

\* ParsePush1 without the self.next() that consumes the operand
ParsePush1_nonext ==
    /\ pc = "parse"
    /\ HasToken(cursor)
    /\ get_token(cursor).tag = "PUSH1"
    /\ LET c1 == cursor + 1
       IN  IF ~HasToken(c1)
             THEN /\ pc' = "panic" /\ err' = "missing_operand"
                  /\ cursor' = c1 /\ UNCHANGED result
           ELSE IF get_token(c1).tag # "VALUE"
             THEN /\ pc' = "panic" /\ err' = "bad_operand"
                  /\ cursor' = c1 /\ UNCHANGED result
           ELSE LET value == trim_start_matches_0x(get_token(c1).val)
                    code  == opcode_parser(to_string(as_opcode(Instr("PUSH1"))), value)
                IN  IF ~code.ok
                      THEN /\ pc' = "panic" /\ err' = "convert"
                           /\ cursor' = c1 /\ UNCHANGED result
                      ELSE /\ result' = Append(result, code.val)
                           /\ cursor' = c1
                           /\ UNCHANGED <<pc, err>>
    /\ UNCHANGED <<lex_returns, source, lines, splited, lexer_result, tokens, parsed, stdout>>

\* parse: self.next() is Some(Op::PUSH1)
ParsePush1 ==
    /\ pc = "parse"
    /\ HasToken(cursor)
    /\ get_token(cursor).tag = "PUSH1"
    /\ LET c1 == cursor + 1
       IN  IF ~HasToken(c1)
             THEN /\ pc' = "panic" /\ err' = "missing_operand"
                  /\ cursor' = c1 /\ UNCHANGED result
           ELSE IF get_token(c1).tag # "VALUE"
             THEN /\ pc' = "panic" /\ err' = "bad_operand"
                  /\ cursor' = c1 /\ UNCHANGED result
           ELSE LET value == trim_start_matches_0x(get_token(c1).val)
                    code  == opcode_parser(to_string(as_opcode(Instr("PUSH1"))), value)
                IN  IF ~code.ok
                      THEN /\ pc' = "panic" /\ err' = "convert"
                           /\ cursor' = c1 /\ UNCHANGED result
                      ELSE /\ result' = Append(result, code.val)
                           /\ cursor' = c1 + 1
                           /\ UNCHANGED <<pc, err>>
    /\ UNCHANGED <<lex_returns, source, lines, splited, lexer_result, tokens, parsed, stdout>>

\* ParseOther that rejects a literal standing where an instruction is expected
ParseOther_reject ==
    /\ pc = "parse"
    /\ HasToken(cursor)
    /\ get_token(cursor).tag # "PUSH1"
    /\ IF get_token(cursor).tag = "VALUE"
         THEN /\ pc' = "panic" /\ err' = "bad_operand"
              /\ cursor' = cursor + 1 /\ UNCHANGED result
         ELSE /\ result' = Append(result, as_opcode(get_token(cursor)))
              /\ cursor' = cursor + 1 + 1
              /\ UNCHANGED <<pc, err>>
    /\ UNCHANGED <<lex_returns, source, lines, splited, lexer_result, tokens, parsed, stdout>>

\* ParseOther with a Parser::next that never moves the cursor
ParseOther_noadvance ==
    /\ pc = "parse"
    /\ HasToken(cursor)
    /\ get_token(cursor).tag # "PUSH1"
    /\ result' = Append(result, as_opcode(get_token(cursor)))
    /\ cursor' = cursor
    /\ UNCHANGED <<lex_returns, source, pc, lines, splited, lexer_result, tokens, parsed, stdout, err>>

\* ParseOther without the second self.next()
ParseOther_single ==
    /\ pc = "parse"
    /\ HasToken(cursor)
    /\ get_token(cursor).tag # "PUSH1"
    /\ result' = Append(result, as_opcode(get_token(cursor)))
    /\ cursor' = cursor + 1
    /\ UNCHANGED <<lex_returns, source, pc, lines, splited, lexer_result, tokens, parsed, stdout, err>>

\* parse: self.next() is Some(token) for any other token
ParseOther ==
    /\ pc = "parse"
    /\ HasToken(cursor)
    /\ get_token(cursor).tag # "PUSH1"
    /\ result' = Append(result, as_opcode(get_token(cursor)))
    /\ cursor' = cursor + 1 + 1
    /\ UNCHANGED <<lex_returns, source, pc, lines, splited, lexer_result, tokens, parsed, stdout, err>>

\* parse: self.next() is None, parse returns Ok(result), main unwraps it
ParseReturn ==
    /\ pc = "parse"
    /\ ~HasToken(cursor)
    /\ cursor' = cursor + 1
    /\ parsed' = result
    /\ pc' = "parsed"
    /\ UNCHANGED <<lex_returns, source, lines, splited, lexer_result, tokens, result, stdout, err>>

RECURSIVE join(_)
join(strs) == IF strs = <<>> THEN <<>> ELSE Head(strs) \o join(Tail(strs))

\* main: joined = result.iter().map(to_string); println!(joined.join(""))
MainPrint ==
    /\ pc = "parsed"
    /\ LET joined == [i \in 1..Len(parsed) |-> to_string(parsed[i])]
       IN  stdout' = Append(stdout, [fmt |-> "display", lexer |-> <<>>, text |-> join(joined)])
    /\ pc' = "done"
    /\ UNCHANGED <<lex_returns, source, lines, splited, lexer_result, tokens, cursor, result, parsed, err>>

Next ==
    \/ LexStart
    \/ LexLine
    \/ LexWord
    \/ LexReturn
    \/ ParsePush1
    \/ ParseOther
    \/ ParseReturn
    \/ MainPrint

Spec == Init /\ [][Next]_vars

\* the runs on which termination is checked: fewer words, one per line
TermVocabulary == { W_pop, W_DUP1, W_push1, W_01, W_2a, W_99999999 }

TermSources ==
    { JoinWords(ws, <<NL>>) : ws \in UNION { [1..n -> TermVocabulary] : n \in 0..MaxWords } }

InitTerm ==
    /\ source \in TermSources
    /\ pc = "main"
    /\ lines = <<>>
    /\ splited = <<>>
    /\ lexer_result = <<>>
    /\ lex_returns = <<>>
    /\ tokens = <<>>
    /\ cursor = 0
    /\ result = <<>>
    /\ parsed = <<>>
    /\ stdout = <<>>
    /\ err = "none"

\* main runs without interruption: a step that can be taken is taken
TermSpec == InitTerm /\ [][Next]_vars /\ WF_vars(Next)

\* lex returns Ok(()) to a caller that keeps the Lexer and lexes the same
\* text with it again (lex takes &mut self and is not tied to main)
LexFinish ==
    /\ pc = "lex"
    /\ splited = <<>>
    /\ lines = <<>>
    /\ Len(lex_returns) < MaxLexRuns
    /\ lex_returns' = Append(lex_returns, lexer_result)
    /\ pc' = IF Len(lex_returns) + 1 < MaxLexRuns THEN "main" ELSE "relexed"
    /\ UNCHANGED <<source, lines, splited, lexer_result, tokens, cursor, result,
                   parsed, stdout, err>>

NextRelex ==
    \/ LexStart
    \/ LexLine
    \/ LexWord
    \/ LexFinish

SpecRelex == Init /\ [][NextRelex]_vars

-----------------------------------------------------------------------------
(* Vocabulary of the properties *)

Finished == pc \in {"parsed", "done"}
Lexed    == pc \notin {"main", "lex"}

\* lex has just returned: no later step writes Lexer.result
JustLexed == pc = "parse" /\ cursor = 0

NonOperandTags == {"MSTORE", "MLOAD", "CREATE", "EXTCODECOPY", "POP", "DUP1", "SWAP1"}
RecognizedTags == NonOperandTags \cup {"PUSH1"}

Blank == {SP, TAB, NL, CR}

\* the whitespace-delimited words of a text, by one left-to-right scan
RECURSIVE ScanWords(_, _, _)
ScanWords(text, cur, acc) ==
    IF text = <<>> THEN (IF cur = <<>> THEN acc ELSE Append(acc, cur))
    ELSE IF text[1] \in Blank
        THEN ScanWords(Tail(text), <<>>, IF cur = <<>> THEN acc ELSE Append(acc, cur))
        ELSE ScanWords(Tail(text), Append(cur, text[1]), acc)

WordsOf(text) == ScanWords(text, <<>>, <<>>)

UpperChars == <<"A", "B", "C", "D", "E", "F", "G", "H", "I", "J", "K", "L", "M",
                "N", "O", "P", "Q", "R", "S", "T", "U", "V", "W", "X", "Y", "Z">>
LowerChars == <<"a", "b", "c", "d", "e", "f", "g", "h", "i", "j", "k", "l", "m",
                "n", "o", "p", "q", "r", "s", "t", "u", "v", "w", "x", "y", "z">>

LowerChar(c) ==
    IF \E i \in 1..26 : UpperChars[i] = c
        THEN LowerChars[CHOOSE i \in 1..26 : UpperChars[i] = c]
        ELSE c

LowerWord(w) == [i \in 1..Len(w) |-> LowerChar(w[i])]

\* the mnemonic table of the specification: lower-case name, instruction
MnemonicTable ==
    { <<W_mstore, "MSTORE">>, <<LowerWord(W_MLOAD), "MLOAD">>, <<W_create, "CREATE">>,
      <<W_extcodecopy, "EXTCODECOPY">>, <<W_push1, "PUSH1">>, <<W_pop, "POP">>,
      <<LowerWord(W_DUP1), "DUP1">>, <<W_swap1, "SWAP1">> }

IsMnemonic(w) == \E m \in MnemonicTable : m[1] = LowerWord(w)
MnemonicTag(w) == (CHOOSE m \in MnemonicTable : m[1] = LowerWord(w))[2]

\* the text main writes for the output sequence
PrintedText == stdout[2].text

-----------------------------------------------------------------------------
(* C1: when parse returns for a token sequence made only of non-operand
   instructions, the output has one entry per token, in input order:
   output length = token count and output[i] = encoding of tokens[i]. *)
C1_OneEntryPerToken ==
    (Finished /\ \A i \in 1..Len(tokens) : tokens[i].tag \in NonOperandTags)
        => /\ Len(parsed) = Len(tokens)
           /\ \A i \in 1..Len(tokens) : parsed[i] = as_opcode(tokens[i])

(* C2: a token sequence whose last token is PUSH1 never makes parse return
   an output: the run aborts. *)
C2_MissingOperandFatal ==
    (tokens # <<>> /\ tokens[Len(tokens)].tag = "PUSH1") => ~Finished

(* C3: a token sequence in which some PUSH1 is immediately followed by a
   recognized instruction never makes parse return an output. *)
C3_MalformedOperandFatal ==
    (\E i \in 1..(Len(tokens) - 1) :
        tokens[i].tag = "PUSH1" /\ tokens[i + 1].tag \in RecognizedTags)
        => ~Finished

\* parse is about to process a PUSH1 whose next token is a literal
AtPush1WithLiteral ==
    /\ pc = "parse"
    /\ HasToken(cursor) /\ get_token(cursor).tag = "PUSH1"
    /\ HasToken(cursor + 1) /\ get_token(cursor + 1).tag = "VALUE"

Src_push1_0x01 == <<Instr("PUSH1"), VALUE(W_0x01)>>

(* C4 as stated: processing a PUSH1 followed by a literal appends two
   entries, the text "60" and then the payload without its 0x prefix; the
   source `push1 0x01` yields the two texts "60", "01". *)
C4_TwoEntries ==
    [][(AtPush1WithLiteral /\ pc' # "panic") =>
        /\ Len(result') = Len(result) + 2
        /\ to_string(result'[Len(result) + 1]) = <<"6", "0">>
        /\ to_string(result'[Len(result) + 2])
               = trim_start_matches_0x(get_token(cursor + 1).val)]_vars

(* C4 amended: processing a PUSH1 followed by a literal either aborts or
   appends exactly one entry, the integer whose decimal text is "60"
   followed by the payload without its 0x prefix; the source `push1 0x01`
   does not abort and yields the one-element output [6001], printed 6001. *)
C4_OneCombinedEntry ==
    /\ [][(AtPush1WithLiteral /\ pc' # "panic") =>
            /\ Len(result') = Len(result) + 1
            /\ SubSeq(result', 1, Len(result)) = result
            /\ to_string(result'[Len(result')])
                   = <<"6", "0">> \o trim_start_matches_0x(get_token(cursor + 1).val)]_vars
    /\ [](tokens = Src_push1_0x01 =>
            /\ err = "none"
            /\ Finished => parsed = <<6001>>
            /\ pc = "done" => PrintedText = <<"6", "0", "0", "1">>)

C4_Witness ==
    /\ pc = "done"
    /\ tokens = Src_push1_0x01
    /\ parsed = <<6001>>

(* C5: a PUSH1 operand is never rejected for its radix or length, and the
   source `push1 2a` does not abort and emits "60" then "2a". *)
C5_OperandVerbatim ==
    /\ err # "convert"
    /\ (tokens = <<Instr("PUSH1"), VALUE(W_2a)>>) =>
          /\ pc # "panic"
          /\ pc = "done" => PrintedText = <<"6", "0", "2", "a">>

(* C6: once lexing is over, every word of the source that is a mnemonic in
   some letter-casing has been resolved to its canonical instruction, never
   to a VALUE literal. *)
C6_CaseInsensitive ==
    Lexed =>
        LET w == WordsOf(source)
        IN  \A i \in 1..Len(w) :
                (IsMnemonic(w[i]) /\ i <= Len(lexer_result))
                    => lexer_result[i] = Instr(MnemonicTag(w[i]))

(* C7: whenever the emitter emits a recognized instruction on its own, the
   text later written for that entry is exactly two characters long (and is
   the text of the instruction's one encoding). *)
C7_TwoCharEncoding ==
    [][(pc = "parse" /\ HasToken(cursor) /\ get_token(cursor).tag \in NonOperandTags) =>
        /\ Len(result') = Len(result) + 1
        /\ to_string(result'[Len(result')]) = to_string(as_opcode(get_token(cursor)))
        /\ Len(to_string(result'[Len(result')])) = 2]_vars

(* C8: when lex has returned on the fresh lexer, and unchanged ever after,
   its result holds exactly one token per whitespace-delimited word of the
   source, in source order,
   where space, tab, carriage return and newline all delimit alike; the
   result therefore depends on the word sequence only. *)
C8_OneTokenPerWord ==
    /\ Lexed => lexer_result = lex_returns[1]
    /\ JustLexed =>
          LET w == WordsOf(source)
          IN  /\ Len(lexer_result) = Len(w)
              /\ \A i \in 1..Len(lexer_result) : lexer_result[i] = from_str(w[i]).op

C8_Witness ==
    /\ Lexed
    /\ Len(lexer_result) = 3
    /\ \E i \in 1..Len(source) : source[i] = TAB
    /\ \E i \in 1..Len(source) : source[i] = NL
    /\ \E i \in 1..Len(source) : source[i] = SP

(* C9: lex never aborts, and when it has returned every word that is not a
   mnemonic is resolved to VALUE carrying exactly that word. *)
C9_ResolutionNeverFails ==
    /\ err # "lex"
    /\ Lexed => lexer_result = lex_returns[1]
    /\ JustLexed =>
          LET w == WordsOf(source)
          IN  /\ Len(lexer_result) = Len(w)
              /\ \A i \in 1..Len(lexer_result) :
                    ~IsMnemonic(w[i]) => lexer_result[i] = VALUE(w[i])

C9_Witness ==
    /\ Lexed
    /\ \E i \in 1..Len(lexer_result) :
          /\ ~IsMnemonic(WordsOf(source)[i])
          /\ lexer_result[i].tag = "VALUE"

(* C10: a source that is empty or only whitespace lexes to the empty token
   sequence, and parse on it returns the empty output without aborting. *)
C10_EmptyInput ==
    (\A i \in 1..Len(source) : source[i] \in Blank) =>
        /\ err = "none"
        /\ lexer_result = <<>>
        /\ tokens = <<>>
        /\ Finished => parsed = <<>>
        /\ pc = "done" => PrintedText = <<>>

C10_Witness ==
    /\ pc = "done"
    /\ source # <<>>
    /\ \A i \in 1..Len(source) : source[i] \in Blank
    /\ parsed = <<>>

(* C11: every call of lex on the same text leaves the token sequence the
   first call produced: the sequence after a second run equals the first. *)
C11_RelexIdentical ==
    \A i \in 1..Len(lex_returns) : lex_returns[i] = lex_returns[1]

\* a display line of main has been written
Printed == \E i \in 1..Len(stdout) : stdout[i].fmt = "display"

(* C12: the run aborts or returns, never both; an aborted run has returned
   no output to main and printed none, although a prefix may have been
   emitted; a returned output is the one of a loop that walked the whole
   token sequence, and only such an output is printed. *)
C12_NoPartialOutput ==
    /\ (pc = "panic") = (err # "none")
    /\ err # "none" => (parsed = <<>> /\ ~Printed)
    /\ Finished => (cursor > Len(tokens) /\ parsed = result)
    /\ Printed =>
          /\ pc = "done"
          /\ PrintedText = join([i \in 1..Len(parsed) |-> to_string(parsed[i])])

C12_Witness ==
    /\ pc = "panic"
    /\ result # <<>>
    /\ parsed = <<>>
    /\ ~Printed

(* C13: a step that processes a PUSH1 at index i with a valid literal at
   i+1 moves the cursor from i to i+2 and appends one entry, so the operand
   is passed over once and the next token processed is the one at i+2. *)
C13_OperandConsumedOnce ==
    [][(AtPush1WithLiteral /\ pc' = "parse") =>
        /\ cursor' = cursor + 2
        /\ Len(result') = Len(result) + 1
        /\ tokens' = tokens]_vars

C13_Witness ==
    /\ pc = "parse"
    /\ cursor = 2
    /\ Len(tokens) = 3
    /\ tokens[1].tag = "PUSH1"
    /\ tokens[2].tag = "VALUE"
    /\ Len(result) = 1

\* parse is about to process a literal where an instruction is expected
AtStandaloneLiteral ==
    /\ pc = "parse"
    /\ HasToken(cursor) /\ get_token(cursor).tag = "VALUE"

(* C14: a step that processes a standalone literal never aborts and appends
   exactly one entry, the sentinel 0, whatever the literal's text. *)
C14_StandaloneLiteral ==
    [][AtStandaloneLiteral => (pc' = "parse" /\ err' = "none" /\ result' = Append(result, 0))]_vars

C14_Witness ==
    /\ pc = "parse"
    /\ cursor = 2
    /\ tokens[1] = VALUE(W_2a)
    /\ result = <<0>>

(* C15: every iteration of the parse loop strictly increases the cursor,
   parse always ends, by returning or by aborting, and it returns only with
   the cursor past the end of the token sequence. *)
C15_ParseTerminates ==
    /\ [][pc = "parse" => cursor' > cursor]_vars
    /\ (pc = "parse") ~> (pc \in {"parsed", "panic"})
    /\ [](Finished => cursor > Len(tokens))

C15_Witness ==
    /\ pc = "parsed"
    /\ Len(tokens) = 3
    /\ cursor > Len(tokens)

\* outcome of emitting PUSH1 with the literal v as its operand
PushOutcome(v) ==
    opcode_parser(to_string(as_opcode(Instr("PUSH1"))), trim_start_matches_0x(v))

(* C16: a step that processes PUSH1 with the literal v has the outcome
   (abort, or the entry appended) that the literal 0x+v has, and that v
   without a leading 0x has; stripping a stripped payload changes nothing. *)
C16_PrefixOptional ==
    [][AtPush1WithLiteral =>
        LET v == get_token(cursor + 1).val
            o == PushOutcome(v)
        IN  /\ (pc' = "panic") = ~o.ok
            /\ o.ok => result' = Append(result, o.val)
            /\ PushOutcome(<<"0", "x">> \o v) = o
            /\ (Len(v) >= 2 /\ v[1] = "0" /\ v[2] = "x")
                   => PushOutcome(SubSeq(v, 3, Len(v))) = o
            /\ trim_start_matches_0x(trim_start_matches_0x(v)) = trim_start_matches_0x(v)
            /\ trim_start_matches_0x(<<"0", "x">> \o v) = trim_start_matches_0x(v)]_vars

C16_Witness ==
    /\ pc = "parse"
    /\ cursor = 2
    /\ tokens[1].tag = "PUSH1"
    /\ tokens[2] = VALUE(W_0x01)
    /\ result = <<6001>>

(* C17: every iteration of the parse loop moves the cursor by exactly 2 and
   appends exactly one entry, so only even 0-based indices are processed; a
   returned output for n tokens has ceil(n/2) entries, each the encoding of
   the non-PUSH1 token at its even index. *)
C17_EvenIndicesOnly ==
    /\ [][(pc = "parse" /\ pc' = "parse") =>
            (cursor' = cursor + 2 /\ Len(result') = Len(result) + 1)]_vars
    /\ [](pc = "parse" => (cursor % 2 = 0 /\ Len(result) = cursor \div 2))
    /\ [](Finished =>
            /\ Len(parsed) = (Len(tokens) + 1) \div 2
            /\ \A k \in 1..Len(parsed) :
                  tokens[2 * k - 1].tag # "PUSH1"
                      => parsed[k] = as_opcode(tokens[2 * k - 1]))

C17_Witness ==
    /\ Finished
    /\ Len(tokens) = 3
    /\ Len(parsed) = 2
    /\ tokens[2].tag \in NonOperandTags

(* C18: any two distinct recognized instructions among the tokens have
   distinct encodings, and none has the sentinel 0 of VALUE. *)
C18_EncodingInjective ==
    \A i, j \in 1..Len(tokens) :
        (tokens[i].tag \in RecognizedTags /\ tokens[j].tag \in RecognizedTags)
            => /\ as_opcode(tokens[i]) # 0
               /\ as_opcode(tokens[i]) = as_opcode(tokens[j]) => tokens[i].tag = tokens[j].tag

\* value of a text of decimal digits
RECURSIVE DecimalValue(_)
DecimalValue(d) ==
    IF d = <<>> THEN 0
    ELSE 10 * DecimalValue(SubSeq(d, 1, Len(d) - 1))
           + ((CHOOSE k \in 0..9 : to_string(k) = <<d[Len(d)]>>))

\* "60" followed by d is at most 2^32 - 1 = 4294967295: a text of at most
\* nine digits, since one of ten digits starts with 6
FitsU32(d) == Len(d) + 2 <= 9

(* C19: a step that processes PUSH1 with a literal whose stripped payload d
   is all decimal digits appends the single value whose decimal text is "60"
   followed by d when that value is at most 2^32 - 1, and aborts otherwise;
   the value is never reduced modulo 2^32. *)
C19_DecimalOperand ==
    [][(AtPush1WithLiteral
          /\ \A i \in 1..Len(trim_start_matches_0x(get_token(cursor + 1).val)) :
                IsDigit(trim_start_matches_0x(get_token(cursor + 1).val)[i])) =>
        LET d == trim_start_matches_0x(get_token(cursor + 1).val)
        IN  IF FitsU32(d)
              THEN /\ pc' = "parse"
                   /\ result' = Append(result, DecimalValue(<<"6", "0">> \o d))
                   /\ to_string(result'[Len(result')]) = <<"6", "0">> \o d
              ELSE /\ pc' = "panic"
                   /\ err' = "convert"
                   /\ result' = result]_vars

C19_Witness ==
    /\ pc = "panic"
    /\ err = "convert"
    /\ get_token(cursor) = VALUE(W_99999999)

====
